---- MODULE Spec2Model ----
(***************************************************************************)
(* Model of src/script.py: the CSV loader (load_and_process_data), the     *)
(* filter-and-aggregate function (calculate_metrics) and one run of the    *)
(* Streamlit script (create_dashboard), which Streamlit executes again     *)
(* from the top on every widget interaction.                               *)
(*                                                                         *)
(* Representation of values.                                               *)
(*   - a text cell is a TLA+ string; the missing value pandas puts in      *)
(*     place of a blank cell is NaN;                                       *)
(*   - a date cell "YYYY-MM-DD" is the tuple <<Y, M, D>> of its three      *)
(*     numeric fields, so that "2024-13-40" is <<2024, 13, 40>>; a blank   *)
(*     date cell and the NaT it parses to are the empty tuple;             *)
(*   - the text "YYYY-MM" produced by strftime('%Y-%m') is the tuple       *)
(*     <<Y, M>> of its two zero-padded fields; the order of these tuples   *)
(*     (PeriodLess) is the lexicographic order of the texts; the sentinel  *)
(*     text 'All' in the period selector is the one-element tuple          *)
(*     <<"All">>;                                                          *)
(*   - an amount of money is an integer number of cents; a percentage is   *)
(*     a record whose value counts hundredths of a percent;                *)
(*   - an optional value (Python None / not yet assigned) is the empty     *)
(*     tuple, a present value v is <<v>>.                                  *)
(***************************************************************************)
EXTENDS Integers, Sequences, FiniteSets, TLC

\* Largest number of data rows of an uploaded CSV file.
MaxRows == 2

----------------------------------------------------------------------------
(* Values *)

NaN == "NaN"
NaT == <<>>
All == "All"
AllPeriods == <<"All">>

START == "Sale Start date"
END == "Sale End date"
LABEL == "Reporting Label"
SOURCE == "Source"
ARTIST == "Asset Artist"
TITLE == "Product Title"
EARNINGS == "Your Earnings"
MONTH_YEAR == "Month-Year"

RequiredColumns == {START, END, LABEL, SOURCE, ARTIST, TITLE, EARNINGS}

DateColumns == {START, END, MONTH_YEAR}

\* pandas.isna on a cell of column col.
isna(col, v) == IF col \in DateColumns THEN v = NaT ELSE v = NaN

\* Elementwise == of a column against a scalar: a missing value equals nothing.
eq(col, v, w) == ~isna(col, v) /\ ~isna(col, w) /\ v = w

RECURSIVE sum(_)
\* Series.sum() of a numeric column (0 for an empty one).
sum(s) == IF s = <<>> THEN 0 ELSE Head(s) + sum(Tail(s))

----------------------------------------------------------------------------
(* The uploaded files *)

ValidStarts == {<<2024, 1, 15>>, <<2024, 2, 3>>}
MalformedDate == <<2024, 13, 40>>
ValidEnd == <<2024, 2, 20>>
Labels == {"L1", "L2"}
\* (Source, Asset Artist, Product Title) of a row; the third source cell is blank.
Keys == {<<"Spotify", "A1", "Song1">>, <<"Apple", "A2", "Song1">>, <<"", "A1", "Song2">>}
Amounts == {-500, 500}

RawRow(s, e, l, k, a) ==
    [c \in RequiredColumns |->
        CASE c = START -> s
          [] c = END -> e
          [] c = LABEL -> l
          [] c = SOURCE -> k[1]
          [] c = ARTIST -> k[2]
          [] c = TITLE -> k[3]
          [] c = EARNINGS -> a]

\* Rows whose cells all parse.
CleanRows == {RawRow(s, ValidEnd, l, k, a) : s \in ValidStarts, l \in Labels, k \in Keys, a \in Amounts}

SampleRow == RawRow(<<2024, 1, 15>>, ValidEnd, "L1", <<"Spotify", "A1", "Song1">>, 500)

\* A row with a blank sale start date, and rows with a malformed date.
BlankStartRow == RawRow(<<>>, ValidEnd, "L2", <<"Apple", "A2", "Song1">>, 500)
MalformedStartRow == RawRow(MalformedDate, ValidEnd, "L1", <<"Spotify", "A1", "Song1">>, 500)
MalformedEndRow == RawRow(<<2024, 1, 15>>, MalformedDate, "L1", <<"Spotify", "A1", "Song1">>, 500)

SeqsUpTo(S, n) == UNION {[1..k -> S] : k \in 0..n}

\* A header that lacks at most one of the required columns.
Headers == {RequiredColumns} \cup {RequiredColumns \ {c} : c \in RequiredColumns}

\* A CSV file: its header and its data rows, each row holding the header's cells.
CsvFile(header, rows) ==
    [columns |-> header,
     rows |-> [i \in 1..Len(rows) |-> [c \in header |-> rows[i][c]]]]

\* Files that satisfy the input contract on the header and on the dates' syntax.
WellFormedFiles ==
    {CsvFile(RequiredColumns, rs) : rs \in SeqsUpTo(CleanRows \cup {BlankStartRow}, MaxRows)}

\* Files with a malformed date in some row, or without one of the columns.
IllFormedFiles ==
    {CsvFile(h, rs) : h \in Headers,
                      rs \in SeqsUpTo({SampleRow, MalformedStartRow, MalformedEndRow}, MaxRows) \ {<<>>}}

\* The files a user uploads: those above that have a data row.
Files == (WellFormedFiles \cup IllFormedFiles) \ {CsvFile(RequiredColumns, <<>>)}

----------------------------------------------------------------------------
(* load_and_process_data *)

\* Values pandas.read_csv reads as missing in a text column.
read_cell(col, v) == IF col \in DateColumns \/ col = EARNINGS THEN v
                     ELSE IF v \in {"", "NaN", "nan", "NA", "N/A", "NULL", "null"} THEN NaN ELSE v

read_csv(file) ==
    [columns |-> file.columns,
     rows |-> [i \in 1..Len(file.rows) |->
                 [c \in file.columns |-> read_cell(c, file.rows[i][c])]]]

IsLeap(y) == (y % 4 = 0 /\ y % 100 # 0) \/ y % 400 = 0

DaysIn(y, m) == IF m = 2 THEN (IF IsLeap(y) THEN 29 ELSE 28)
                ELSE IF m \in {4, 6, 9, 11} THEN 30 ELSE 31

\* to_datetime(..., errors='coerce'): nothing is rejected.
parses_coerce(d) == TRUE

\* A date text that pandas.to_datetime accepts: blank (-> NaT) or a calendar date.
parses(d) == d = NaT \/ (Len(d) = 3 /\ d[2] \in 1..12 /\ d[3] \in 1..DaysIn(d[1], d[2]))

\* Positions of the cells of column col that to_datetime rejects.
bad_positions(frame, col) == {i \in 1..Len(frame.rows) : ~parses(frame.rows[i][col])}

\* Series.dt.strftime('%Y-%m'): year and month of the date, NaN for NaT.
strftime_Ym(d) == IF d = NaT THEN NaT ELSE <<d[1], d[2]>>

Min(S) == CHOOSE x \in S : \A y \in S : x <= y

\* A raised exception: its kind, the column it names and the row position it
\* names (0 when it names none).
Raised(kind, col, pos) == <<[kind |-> kind, column |-> col, row |-> pos]>>

\* frame[col] = to_datetime(frame[col]): the exception it raises, or <<>>.
to_datetime_error(frame, col) ==
    IF col \notin frame.columns THEN Raised("KeyError", col, 0)
    ELSE IF bad_positions(frame, col) # {}
         THEN Raised("DateParseError", col, Min(bad_positions(frame, col)))
         ELSE <<>>

load_and_process_data(file) ==
    LET frame == read_csv(file)
        start_error == to_datetime_error(frame, START)
        end_error == to_datetime_error(frame, END)
    IN
    IF start_error # <<>> THEN [df |-> <<>>, error |-> start_error]
    ELSE IF end_error # <<>> THEN [df |-> <<>>, error |-> end_error]
    ELSE [df |-> << [columns |-> frame.columns \cup {MONTH_YEAR},
                     rows |-> [i \in 1..Len(frame.rows) |->
                                 [c \in frame.columns \cup {MONTH_YEAR} |->
                                     IF c = MONTH_YEAR
                                     THEN strftime_Ym(frame.rows[i][START])
                                     ELSE frame.rows[i][c]]]] >>,
          error |-> <<>>]

----------------------------------------------------------------------------
(* calculate_metrics *)

\* filtered_df[filtered_df[col] == value]
select(rows, col, value) == SelectSeq(rows, LAMBDA r : eq(col, r[col], value))

column(rows, col) == [i \in 1..Len(rows) |-> rows[i][col]]

\* filter_label with the comparison inverted.
filter_label_inverted(rows, selected_label) ==
    IF selected_label # All
    THEN SelectSeq(rows, LAMBDA r : ~eq(LABEL, r[LABEL], selected_label))
    ELSE rows

filter_label(rows, selected_label) ==
    IF selected_label # All THEN select(rows, LABEL, selected_label) ELSE rows

filter_period(rows, selected_period) ==
    IF selected_period # AllPeriods THEN select(rows, MONTH_YEAR, selected_period) ELSE rows

\* groupby(key)['Your Earnings'].sum(): one entry per distinct key value of the
\* rows; groupby leaves out the rows whose key is missing (dropna=True).
groupby_sum(rows, key) ==
    [k \in {rows[i][key] : i \in 1..Len(rows)} \ {IF key \in DateColumns THEN NaT ELSE NaN} |->
        sum(column(SelectSeq(rows, LAMBDA r : r[key] = k), EARNINGS))]

RECURSIVE first_missing(_, _)
\* The KeyError of the first column among cols, in the order of use, that the
\* frame lacks, or <<>>.
first_missing(df, cols) ==
    IF cols = <<>> THEN <<>>
    ELSE IF Head(cols) \notin df.columns THEN Raised("KeyError", Head(cols), 0)
    ELSE first_missing(df, Tail(cols))

\* The columns calculate_metrics reads, in the order it reads them.
columns_used(selected_label) ==
    (IF selected_label # All THEN <<LABEL>> ELSE <<>>) \o <<EARNINGS, SOURCE, ARTIST, TITLE>>

\* Lines 29-41: the four results, from the filtered frame.
metrics_of(filtered_df) ==
    [total_earnings |-> sum(column(filtered_df, EARNINGS)),
     dsp_earnings |-> groupby_sum(filtered_df, SOURCE),
     artist_earnings |-> groupby_sum(filtered_df, ARTIST),
     asset_earnings |-> groupby_sum(filtered_df, TITLE)]

\* calculate_metrics that raises on an empty filtered frame.
calculate_metrics_strict(df, selected_label, selected_period) ==
    LET filtered_df == filter_period(filter_label(df.rows, selected_label), selected_period)
    IN  IF first_missing(df, columns_used(selected_label)) # <<>>
        THEN [value |-> <<>>, error |-> first_missing(df, columns_used(selected_label))]
        ELSE IF filtered_df = <<>>
        THEN [value |-> <<>>, error |-> Raised("ValueError", EARNINGS, 0)]
        ELSE [value |-> <<metrics_of(filtered_df)>>, error |-> <<>>]

calculate_metrics(df, selected_label, selected_period) ==
    LET filtered_df == filter_period(filter_label(df.rows, selected_label), selected_period)
    IN  IF first_missing(df, columns_used(selected_label)) # <<>>
        THEN [value |-> <<>>, error |-> first_missing(df, columns_used(selected_label))]
        ELSE [value |-> <<metrics_of(filtered_df)>>, error |-> <<>>]

\* A function that filters the caller's frame in place.
frame_filtered_in_place(df, selected_label, selected_period) ==
    [df EXCEPT !.rows = filter_period(filter_label(df.rows, selected_label), selected_period)]

\* The caller's frame after a call: the function works on df.copy() and on the
\* new frames that boolean indexing returns.
frame_after_call(df, selected_label, selected_period) == df

----------------------------------------------------------------------------
(* create_dashboard: one run of the script *)

\* n / d rounded to the nearest integer, halves to the even one (numpy.round).
round_div(n, d) ==
    LET nn == IF d < 0 THEN -n ELSE n
        dd == IF d < 0 THEN -d ELSE d
        q == nn \div dd
        r == nn % dd
    IN  IF 2 * r < dd THEN q
        ELSE IF 2 * r > dd THEN q + 1
        ELSE IF q % 2 = 0 THEN q ELSE q + 1

\* (group / total_earnings * 100).round(2), in hundredths of a percent.  A float
\* division by zero raises nothing: it yields inf, -inf or nan.
percentage(group, total_earnings) ==
    IF total_earnings # 0
    THEN [kind |-> "number", value |-> round_div(group * 10000, total_earnings)]
    ELSE IF group > 0 THEN [kind |-> "inf", value |-> 0]
    ELSE IF group < 0 THEN [kind |-> "-inf", value |-> 0]
    ELSE [kind |-> "nan", value |-> 0]

\* The rows of pd.DataFrame({name: index, 'Earnings': values, 'Percentage': ...}).
ranked_rows(earnings, total_earnings) ==
    {[Key |-> k, Earnings |-> earnings[k], Percentage |-> percentage(earnings[k], total_earnings)] :
        k \in DOMAIN earnings}

Orders(S) == {s \in [1..Cardinality(S) -> S] : \A i, j \in 1..Cardinality(S) : i # j => s[i] # s[j]}

\* .sort_values('Earnings', ascending=False): the orders of the rows with
\* non-increasing Earnings (the default quicksort fixes no order among equals).
sort_values_descending(S) ==
    {s \in Orders(S) : \A i, j \in 1..Len(s) : i < j => s[i].Earnings >= s[j].Earnings}

\* The order of two 'YYYY-MM' texts.
PeriodLess(p, q) == p[1] < q[1] \/ (p[1] = q[1] /\ p[2] < q[2])

\* The trend computed from the filtered frame.
trend_rows_filtered(df, filtered_rows) == filtered_rows

\* The frame the trend is computed from.
trend_rows(df, filtered_rows) == df.rows

\* groupby('Month-Year')['Your Earnings'].sum().reset_index(): one row per distinct
\* period, in the sorted order of the group keys.
monthly_trend(rows) ==
    LET sums == groupby_sum(rows, MONTH_YEAR)
        order == CHOOSE s \in Orders(DOMAIN sums) :
                    \A i, j \in 1..Len(s) : i < j => PeriodLess(s[i], s[j])
    IN  [i \in 1..Len(order) |-> [period |-> order[i], earnings |-> sums[order[i]]]]

\* list(df[col].unique())
unique(df, col) == {df.rows[i][col] : i \in 1..Len(df.rows)}

\* A run that an exception ended at step `at`: nothing after it is drawn.
stopped(at, frame, err) ==
    [pc |-> at, df |-> frame, error |-> err, metrics |-> <<>>,
     ranked |-> {<<>>}, monthly_earnings |-> <<>>]

\* Lines 65-147: the total, the two ranked tables and the trend.
render(frame, m, filtered_rows) ==
    [pc |-> "rendered", df |-> <<frame>>, error |-> <<>>, metrics |-> <<m>>,
     ranked |->
        {<<a, t>> :
            a \in sort_values_descending(ranked_rows(m.artist_earnings, m.total_earnings)),
            t \in sort_values_descending(ranked_rows(m.asset_earnings, m.total_earnings))},
     monthly_earnings |-> <<monthly_trend(trend_rows(frame, filtered_rows))>>]

\* Lines 52-147, on the loaded frame.
show(frame, selected_label, selected_period) ==
    IF first_missing(frame, <<LABEL>>) # <<>>
    THEN stopped("sidebar_failed", <<frame>>, first_missing(frame, <<LABEL>>))
    ELSE LET m == calculate_metrics(frame, selected_label, selected_period) IN
         IF m.error # <<>> THEN stopped("metrics_failed", <<frame>>, m.error)
         ELSE render(frame, m.value[1],
                     filter_period(filter_label(frame.rows, selected_label), selected_period))

\* What one run of the script leaves: the frame, where the run ended and what is
\* shown.
run(file, selected_label, selected_period) ==
    LET loaded == load_and_process_data(file) IN
    IF loaded.error # <<>> THEN stopped("load_failed", <<>>, loaded.error)
    ELSE show(loaded.df[1], selected_label, selected_period)

----------------------------------------------------------------------------
(* The session *)

VARIABLES
    uploaded_file,      \* st.file_uploader's value: <<>> or <<file>>
    selected_label,     \* the label selectbox
    selected_period,    \* the period selectbox
    pc,                 \* where the last run of the script ended
    df,                 \* the frame of the last run, or the frame the calls are made on
    error,              \* the exception that ended the last run
    metrics,            \* what calculate_metrics returned
    artist_df,          \* the artist table, sorted
    asset_df,           \* the title table, sorted
    monthly_earnings    \* the monthly series

vars == <<uploaded_file, selected_label, selected_period, pc, df, error, metrics,
          artist_df, asset_df, monthly_earnings>>

Init ==
    /\ uploaded_file = <<>>
    /\ selected_label = All
    /\ selected_period = AllPeriods
    /\ pc = "no_file"
    /\ df = <<>>
    /\ error = <<>>
    /\ metrics = <<>>
    /\ artist_df = <<>>
    /\ asset_df = <<>>
    /\ monthly_earnings = <<>>

\* The script runs with the widgets' values label and period.
Script(file, label, period) ==
    \E out \in {run(file, label, period)} :
    /\ selected_label' = label
    /\ selected_period' = period
    /\ pc' = out.pc
    /\ df' = out.df
    /\ error' = out.error
    /\ metrics' = out.metrics
    /\ monthly_earnings' = out.monthly_earnings
    /\ \E tables \in out.ranked :
          /\ artist_df' = (IF tables = <<>> THEN <<>> ELSE <<tables[1]>>)
          /\ asset_df' = (IF tables = <<>> THEN <<>> ELSE <<tables[2]>>)

\* The user uploads a file; both selectboxes show their first option.
Upload ==
    /\ uploaded_file = <<>>
    /\ \E file \in Files :
          /\ uploaded_file' = <<file>>
          /\ Script(file, All, AllPeriods)

SidebarShown == pc \in {"metrics_failed", "rendered"}

SelectLabel ==
    /\ SidebarShown
    /\ \E label \in ({All} \cup unique(df[1], LABEL)) \ {selected_label} :
          Script(uploaded_file[1], label, selected_period)
    /\ UNCHANGED uploaded_file

SelectPeriod ==
    /\ SidebarShown
    /\ \E period \in ({AllPeriods} \cup unique(df[1], MONTH_YEAR)) \ {selected_period} :
          Script(uploaded_file[1], selected_label, period)
    /\ UNCHANGED uploaded_file

Next == Upload \/ SelectLabel \/ SelectPeriod

Spec == Init /\ [][Next]_vars

----------------------------------------------------------------------------
(* calculate_metrics as a function: calls on a loaded frame *)

FilterLabels == {All, "L1"}
\* 2023-12 is the period of no row.
FilterPeriods == {AllPeriods, <<2024, 1>>, <<2023, 12>>}

InitMetrics ==
    /\ \E file \in WellFormedFiles :
          /\ uploaded_file = <<file>>
          /\ df = load_and_process_data(file).df
    /\ selected_label = All
    /\ selected_period = AllPeriods
    /\ pc = "loaded"
    /\ error = <<>>
    /\ metrics = <<>>
    /\ artist_df = <<>>
    /\ asset_df = <<>>
    /\ monthly_earnings = <<>>

Call ==
    \E label \in FilterLabels, period \in FilterPeriods :
    \E m \in {calculate_metrics(df[1], label, period)} :
        /\ metrics' = m.value
        /\ error' = m.error
        /\ df' = <<frame_after_call(df[1], label, period)>>
        /\ selected_label' = label
        /\ selected_period' = period
        /\ pc' = (IF pc = "loaded" THEN "called" ELSE "called_again")
        /\ UNCHANGED <<uploaded_file, artist_df, asset_df, monthly_earnings>>

NextMetrics == Call

SpecMetrics == InitMetrics /\ [][NextMetrics]_vars

----------------------------------------------------------------------------
(* Properties *)

\* The table load_and_process_data returns for the uploaded file.
Table == load_and_process_data(uploaded_file[1]).df[1]

Called == pc \in {"called", "called_again"}

\* The records a filter keeps, by the filtering rule.
Kept(rows, label, period) ==
    {i \in 1..Len(rows) :
        /\ (label = All \/ rows[i][LABEL] = label)
        /\ (period = AllPeriods \/ rows[i][MONTH_YEAR] = period)}

RECURSIVE EarningsOver(_, _)
\* The sum of the earnings of the records at the positions I.
EarningsOver(rows, I) ==
    IF I = {} THEN 0
    ELSE LET i == CHOOSE x \in I : TRUE IN rows[i][EARNINGS] + EarningsOver(rows, I \ {i})

RECURSIVE Total(_, _)
\* The sum of the values of a mapping over the keys K.
Total(f, K) ==
    IF K = {} THEN 0
    ELSE LET k == CHOOSE x \in K : TRUE IN f[k] + Total(f, K \ {k})

KeptNow == Kept(Table.rows, selected_label, selected_period)

\* C1: after a call of calculate_metrics on a table with a filter (label, period),
\* the total returned is the sum of the earnings of exactly the records whose
\* label is the filter's (or the filter's label is "All") and whose period is the
\* filter's (or the filter's period is "All"); no call fails.
C1_TotalIsSumOfKeptRecords ==
    Called =>
        /\ error = <<>>
        /\ metrics # <<>>
        /\ metrics[1].total_earnings = EarningsOver(Table.rows, KeptNow)

\* A call with both filters set that keeps some records and drops others.
C1_Witness ==
    /\ Called
    /\ selected_label # All
    /\ selected_period # AllPeriods
    /\ KeptNow # {}
    /\ Cardinality(KeptNow) < Len(Table.rows)
    /\ metrics # <<>>
    /\ metrics[1].total_earnings # 0
    /\ metrics[1].total_earnings # EarningsOver(Table.rows, 1..Len(Table.rows))

\* The mapping of one dimension by the grouping rule: its keys are the distinct
\* values of the dimension among the kept records, each mapped to the sum of the
\* earnings of the kept records with it.
GroupsAreSums(groups, rows, kept, dim) ==
    /\ DOMAIN groups = {rows[i][dim] : i \in kept}
    /\ \A k \in DOMAIN groups :
          groups[k] = EarningsOver(rows, {i \in kept : rows[i][dim] = k})

\* C2: for each of source, artist and title, the mapping calculate_metrics returns
\* has as keys exactly the distinct values of the dimension among the kept
\* records, each mapped to the sum of the earnings of the kept records with that
\* value, whatever the sign of the sum.
C2_GroupSumsPerDistinctKey ==
    (Called /\ metrics # <<>>) =>
        /\ GroupsAreSums(metrics[1].dsp_earnings, Table.rows, KeptNow, SOURCE)
        /\ GroupsAreSums(metrics[1].artist_earnings, Table.rows, KeptNow, ARTIST)
        /\ GroupsAreSums(metrics[1].asset_earnings, Table.rows, KeptNow, TITLE)

\* C3: with no filter, the group sums of each dimension add up to the total.
C3_GroupSumsAddUpToTotal ==
    (Called /\ metrics # <<>> /\ selected_label = All /\ selected_period = AllPeriods) =>
        /\ Total(metrics[1].dsp_earnings, DOMAIN metrics[1].dsp_earnings) = metrics[1].total_earnings
        /\ Total(metrics[1].artist_earnings, DOMAIN metrics[1].artist_earnings) = metrics[1].total_earnings
        /\ Total(metrics[1].asset_earnings, DOMAIN metrics[1].asset_earnings) = metrics[1].total_earnings

\* C4: a call whose filter keeps no record returns total 0 and three empty
\* mappings, and raises nothing.
C4_EmptyFilteredSetGivesZero ==
    (Called /\ KeptNow = {}) =>
        /\ error = <<>>
        /\ metrics # <<>>
        /\ metrics[1].total_earnings = 0
        /\ DOMAIN metrics[1].dsp_earnings = {}
        /\ DOMAIN metrics[1].artist_earnings = {}
        /\ DOMAIN metrics[1].asset_earnings = {}

\* A call on a table with records, filtered by a period no record has.
C4_Witness ==
    /\ Called
    /\ Len(Table.rows) > 0
    /\ selected_period = <<2023, 12>>
    /\ \A i \in 1..Len(Table.rows) : Table.rows[i][MONTH_YEAR] # selected_period
    /\ metrics # <<>>
    /\ metrics[1].total_earnings = 0

File == uploaded_file[1]

\* The date cells of the file that are no calendar date: <<position, column>>.
MalformedCells(file) ==
    {<<i, c>> \in (1..Len(file.rows)) \X ({START, END} \cap file.columns) :
        file.rows[i][c] = MalformedDate}

NothingShown == metrics = <<>> /\ artist_df = <<>> /\ asset_df = <<>> /\ monthly_earnings = <<>>

\* The positions of the records of the table whose period is p.
InPeriod(rows, p) == {i \in 1..Len(rows) : rows[i][MONTH_YEAR] = p}

\* C5: whatever label and period are selected, the monthly series shown is
\* computed over the whole table of the uploaded file: one pair per distinct
\* period of the table, holding the sum of the earnings of all the table's
\* records of that period, with the periods strictly increasing.
C5_MonthlySeriesOverWholeTable ==
    pc = "rendered" =>
        /\ df = <<Table>>
        /\ monthly_earnings # <<>>
        /\ LET series == monthly_earnings[1] IN
           /\ {series[i].period : i \in 1..Len(series)}
                 = {Table.rows[i][MONTH_YEAR] : i \in 1..Len(Table.rows)} \ {NaT}
           /\ \A i \in 1..Len(series) :
                 series[i].earnings = EarningsOver(Table.rows, InPeriod(Table.rows, series[i].period))
           /\ \A i, j \in 1..Len(series) :
                 i < j => PeriodLess(series[i].period, series[j].period)

\* A run with both a label and a period selected that keep fewer records than the
\* table has, over a table with two periods.
C5_Witness ==
    /\ pc = "rendered"
    /\ selected_label # All
    /\ selected_period # AllPeriods
    /\ Cardinality(KeptNow) < Len(Table.rows)
    /\ monthly_earnings # <<>>
    /\ Len(monthly_earnings[1]) = 2
    /\ monthly_earnings[1][1].earnings # 0

\* C6: once a file with a malformed date in a date field is uploaded, the load
\* has failed, no table exists and nothing is aggregated or shown; when the file
\* has both date columns the error is the date error, and the column and the
\* row it names hold a malformed date.
C6_MalformedDateFailsTheLoad ==
    (uploaded_file # <<>> /\ MalformedCells(File) # {}) =>
        /\ pc = "load_failed"
        /\ df = <<>>
        /\ NothingShown
        /\ error # <<>>
        /\ ({START, END} \subseteq File.columns =>
              /\ error[1].kind = "DateParseError"
              /\ <<error[1].row, error[1].column>> \in MalformedCells(File))

\* A file whose first row is fine and whose second row has the malformed end date.
C6_Witness ==
    /\ uploaded_file # <<>>
    /\ File.columns = RequiredColumns
    /\ MalformedCells(File) = {<<2, END>>}
    /\ pc = "load_failed"
    /\ error = Raised("DateParseError", END, 2)

\* C7: every record of a table the load returns has a period, and a file with a
\* row whose sale start date is blank makes the load fail.
C7_EveryLoadedRecordHasAPeriod ==
    /\ df # <<>> => \A i \in 1..Len(df[1].rows) : df[1].rows[i][MONTH_YEAR] # NaT
    /\ (uploaded_file # <<>> /\ START \in File.columns
            /\ \E i \in 1..Len(File.rows) : File.rows[i][START] = <<>>)
          => (pc = "load_failed" /\ df = <<>>)

\* C8: a file that lacks one of the seven required columns fails during the load:
\* no table exists and neither aggregation nor rendering is reached.
C8_MissingColumnFailsTheLoad ==
    (uploaded_file # <<>> /\ File.columns # RequiredColumns) =>
        /\ pc = "load_failed"
        /\ df = <<>>
        /\ NothingShown

\* The percentages of a ranked table by the rule: round(group / total * 100, 2)
\* when the total is not zero, and otherwise one and the same value for every
\* group, zero or undefined.
PercentagesByRule(table, total) ==
    /\ total # 0 =>
          \A i \in 1..Len(table) :
              /\ table[i].Percentage.kind = "number"
              /\ LET v == table[i].Percentage.value
                     n == (IF total < 0 THEN -1 ELSE 1) * table[i].Earnings * 10000
                     d == IF total < 0 THEN -total ELSE total
                 IN  \* v is a nearest integer to n / d
                     2 * (v * d - n) <= d /\ 2 * (n - v * d) <= d
    /\ total = 0 =>
          \E v \in {[kind |-> "number", value |-> 0], [kind |-> "nan", value |-> 0]} :
              \A i \in 1..Len(table) : table[i].Percentage = v

\* C9: in the artist and the title table each percentage is
\* round(group_sum / total * 100, 2) when the total is not zero; when the total is
\* zero every group's percentage is one single value, 0 or undefined.  Stated of
\* the tables whose records all have a period.
C9_PercentagesDefinedAtZeroTotal ==
    (pc = "rendered" /\ \A i \in 1..Len(Table.rows) : Table.rows[i][MONTH_YEAR] # NaT) =>
        /\ PercentagesByRule(artist_df[1], metrics[1].total_earnings)
        /\ PercentagesByRule(asset_df[1], metrics[1].total_earnings)

====
